---- MODULE Spec2Model ----
(***************************************************************************)
(* A model of PyObfuscator (src/obf.py): the run driven by obfuscate(),    *)
(* the structural stripper, the import ledger, the identifier renamer and  *)
(* the wrap transforms with the loaders they generate.                     *)
(*                                                                         *)
(* Program text (self._code) is a sequence of source lines.  A line is a   *)
(* record with a field kind: a statement of the parse tree, or a line the  *)
(* parser drops (a comment, the padding block).  ast.parse keeps the       *)
(* statements, ast.unparse writes them back.                               *)
(***************************************************************************)
EXTENDS Integers, Sequences, FiniteSets, TLC

VARIABLES
    pc,               \* position of the run
    input,            \* the code argument of __init__
    code,             \* self._code
    recursion,        \* self.__recursion
    include_imports,  \* self.__include_imports
    imports,          \* self._imports: sequence of <<module, symbol>>
    aliases,          \* self._aliases: original name -> synthetic name
    layers,           \* obfuscate(): the local list layers
    idx,              \* obfuscate(): number of layers applied so far
    output,           \* value returned by obfuscate(): <<>> or <<text>>
    error,            \* the exception that left the run, or None
    ret,              \* value returned by the last _generate_random_name call
    frame             \* locals of the transform being run and of its loader

vars == <<pc, input, code, recursion, include_imports, imports, aliases,
          layers, idx, output, error, ret, frame>>

\* Python's None
None == "None"

----------------------------------------------------------------------------
(* Python sequence primitives (0-based indices).                           *)

\* s[i]
PyIndex(s, i) == s[i + 1]

\* s[lo:hi] for 0 <= lo
PySlice(s, lo, hi) ==
    LET h == IF hi > Len(s) THEN Len(s) ELSE hi
    IN  IF lo >= h THEN <<>> ELSE SubSeq(s, lo + 1, h)

\* list.insert(i, x): an index past the end appends
PyInsert(s, i, x) ==
    LET k == IF i > Len(s) THEN Len(s) ELSE i
    IN  SubSeq(s, 1, k) \o <<x>> \o SubSeq(s, k + 1, Len(s))

\* s with s[i] = x done (0-based)
PySetItem(s, i, x) == [s EXCEPT ![i + 1] = x]

\* int ^ int on non-negative integers
RECURSIVE Xor(_, _)
Xor(a, b) ==
    IF a = 0 /\ b = 0 THEN 0
    ELSE (((a % 2) + (b % 2)) % 2) + 2 * Xor(a \div 2, b \div 2)

\* list(map(f, s))
MapSeq(f(_), s) == [k \in 1..Len(s) |-> f(s[k])]

\* All sequences over S of length lo..hi
SeqsOf(S, lo, hi) == UNION {[1..n -> S] : n \in lo..hi}

----------------------------------------------------------------------------
(* Program constants.                                                      *)

XOR_KEY_MIN == 1
XOR_KEY_MAX == 100
\* range(1, 100) in the loader of _layer_2
LOADER_KEY_FIRST == 1
LOADER_KEY_STOP == 100

----------------------------------------------------------------------------
(* Values every specification starts from.                                 *)

NoFrame == [op |-> "none"]

FreshObject ==
    /\ recursion = 1
    /\ include_imports = FALSE
    /\ imports = <<>>
    /\ aliases = [n \in {} |-> None]
    /\ layers = <<>>
    /\ idx = 0
    /\ output = <<>>
    /\ error = None
    /\ ret = None

----------------------------------------------------------------------------
(* _layer_2 at the level of bytes: the encoder and the loader it writes.   *)
(* frame.compressed is zlib.compress(self._code.encode()), a non-empty     *)
(* byte string; the loader hands frame.executed to zlib.decompress.        *)

MaxPayloadLen == 2
\* random.randbytes(1)[0] is any of 0..255; these are the ones drawn here
ByteSample == {0, 100, 255}
PayloadBytes == {1, 254}
CompressedSamples == SeqsOf(PayloadBytes, 1, MaxPayloadLen)

\* Lines 291-300: the list encrypted after both inserts
L2Encrypt(compressed, key, in_byte, in_loc, re_loc) ==
    LET re_byte == Xor(in_byte, key)
        encrypted == MapSeq(LAMBDA x : Xor(key, x), compressed)
    IN  PyInsert(PyInsert(encrypted, in_loc, in_byte), re_loc, re_byte)

\* Line 287: the loader's test for candidate i
L2Match(encrypted, in_loc, re_loc, i) ==
    Xor(PyIndex(encrypted, in_loc), i) = PyIndex(encrypted, re_loc)

\* Lines 286-289: the first candidate of range(1, 100) that matches, or 0
RECURSIVE L2Search(_, _, _, _)
L2Search(encrypted, in_loc, re_loc, i) ==
    IF i >= LOADER_KEY_STOP THEN 0
    ELSE IF L2Match(encrypted, in_loc, re_loc, i) THEN i
    ELSE L2Search(encrypted, in_loc, re_loc, i + 1)

\* Line 288: bytes(map(lambda x: x ^ i, encrypted[:in_loc] +
\* encrypted[in_loc+1:re_loc] + encrypted[re_loc+1:]))
L2Decode(encrypted, in_loc, re_loc, i) ==
    MapSeq(LAMBDA x : Xor(x, i),
           PySlice(encrypted, 0, in_loc)
             \o PySlice(encrypted, in_loc + 1, re_loc)
             \o PySlice(encrypted, re_loc + 1, Len(encrypted)))

\* The Name nodes of each layer template, in tree order
LoaderNames(layer) ==
    CASE layer = "_layer_1" ->
           <<"fire", "water", "earth", "wind", "exec", "__import__", "__import__",
             "fire", "water", "earth", "wind">>
      [] layer = "_layer_2" ->
           <<"encrypted", "i", "range", "encrypted", "i", "encrypted", "exec",
             "__import__", "bytes", "map", "x", "i", "encrypted", "encrypted",
             "encrypted">>
      [] layer = "_layer_3" ->
           <<"ip_table", "data", "list", "int", "x", "item", "value", "value",
             "ip_table", "x", "item", "exec", "compile", "__import__",
             "__import__", "bytes", "data">>
      [] layer = "_layer_4" ->
           <<"exec", "marshal", "__import__", "__import__">>

\* The loader statements a layer template parses to, holding its payload
Loader(layer, payload) ==
    [kind |-> "loader", layer |-> layer, names |-> LoaderNames(layer),
     payload |-> payload]

\* The loader source _layer_2 writes (template of lines 284-290 filled in)
L2Loader(encrypted, in_loc, re_loc) ==
    Loader("_layer_2", [encrypted |-> encrypted, in_loc |-> in_loc, re_loc |-> re_loc])

\* _layer_2 is entered with some text whose compressed bytes are z; only
\* the bytes are followed here, the text is left out (empty)
InitL2 ==
    /\ pc = "l2_ready"
    /\ \E z \in CompressedSamples :
          /\ frame = [op |-> "_layer_2", compressed |-> z]
    /\ input = <<>>
    /\ code = input
    /\ FreshObject

\* _layer_2 with its random draws
Layer2Bytes ==
    /\ pc = "l2_ready"
    /\ \E key \in XOR_KEY_MIN..XOR_KEY_MAX, in_byte \in ByteSample :
       \E in_loc \in 0..(Len(frame.compressed) \div 2) :
       \E re_loc \in in_loc..(Len(frame.compressed) - 1) :
          /\ frame' = [op |-> "_layer_2", compressed |-> frame.compressed,
                       key |-> key, in_byte |-> in_byte]
          /\ code' = <<L2Loader(L2Encrypt(frame.compressed, key, in_byte, in_loc, re_loc),
                                in_loc, re_loc)>>
    /\ pc' = "l2_written"
    /\ UNCHANGED <<input, recursion, include_imports, imports, aliases,
                   layers, idx, output, error, ret>>

\* Running the loader written by _layer_2
RunLoader2 ==
    /\ pc = "l2_written"
    /\ LET ld == code[1].payload
           i == L2Search(ld.encrypted, ld.in_loc, ld.re_loc, LOADER_KEY_FIRST)
       IN  \/ /\ i # 0
              /\ frame' = [frame EXCEPT !.op = "loader_2"] @@
                          [matched |-> i,
                           executed |-> <<L2Decode(ld.encrypted, ld.in_loc, ld.re_loc, i)>>]
           \/ /\ i = 0
              /\ frame' = [frame EXCEPT !.op = "loader_2"] @@
                          [matched |-> 0, executed |-> <<>>]
    /\ pc' = "l2_loaded"
    /\ UNCHANGED <<input, code, recursion, include_imports, imports, aliases,
                   layers, idx, output, error, ret>>

NextL2 == Layer2Bytes \/ RunLoader2

SpecL2 == InitL2 /\ [][NextL2]_vars

\* C1: whenever the loader of _layer_2 has run, its search over 1..99 found
\* a candidate, the sentinels it tested sit at the two recorded positions,
\* and the bytes it decompresses are the compressed payload of the encoder.
C1_Layer2RoundTrip ==
    pc = "l2_loaded" =>
        /\ frame.matched # 0
        /\ PyIndex(code[1].payload.encrypted, code[1].payload.in_loc) = frame.in_byte
        /\ PyIndex(code[1].payload.encrypted, code[1].payload.re_loc)
             = Xor(frame.in_byte, frame.key)
        /\ frame.executed = <<frame.compressed>>

----------------------------------------------------------------------------
(* Program text and its parse tree.                                        *)

\* ast.Pass()
Pass == [kind |-> "Pass"]
\* ast.Expr(value=ast.Constant(v)): a standalone literal statement
ExprConstant(v) == [kind |-> "Expr", value |-> [kind |-> "Constant", value |-> v]]
\* ast.Expr whose value is a call f(a): Name nodes f and a
ExprCall(f, a) == [kind |-> "Expr", value |-> [kind |-> "Call", names |-> <<f, a>>]]
\* target = value, both Name nodes
Assign(target, value) == [kind |-> "Assign", names |-> <<target, value>>]
FunctionDef(name, body) == [kind |-> "FunctionDef", name |-> name, body |-> body]
ClassDef(name, body) == [kind |-> "ClassDef", name |-> name, body |-> body]
\* import a, b
Import(names) == [kind |-> "Import", names |-> names]
\* from module import a, b  (module is None for "from . import a")
ImportFrom(module, names) == [kind |-> "ImportFrom", module |-> module, names |-> names]
\* a return statement at module scope: ast.parse accepts it, compile() does not
ModuleReturn == [kind |-> "Return"]
\* a line the grammar rejects
InvalidLine == [kind |-> "invalid"]
\* a comment line
Comment(text) == [kind |-> "comment", text |-> text]

\* Lines the parser keeps no node for
IsTrivia(line) == line.kind \in {"comment", "blank", "padding"}

\* ast.parse raises SyntaxError on text with a line the grammar rejects
Parses(text) == \A k \in 1..Len(text) : text[k].kind # "invalid"

\* ast.parse(text).body
Parse(text) == SelectSeq(text, LAMBDA line : ~IsTrivia(line))

\* ast.unparse(tree)
Unparse(body) == body

\* Line 160-162: the node inserted in front of the module body
Placeholder == ExprConstant("Obfuscated Python Code")

\* isinstance(n, ast.Expr) and isinstance(n.value, ast.Constant)
IsExprConstant(n) == n.kind = "Expr" /\ n.value.kind = "Constant"

\* Lines 169-171 and 178-180: each literal statement of a body made a Pass
StripBody(body) ==
    [k \in 1..Len(body) |-> IF IsExprConstant(body[k]) THEN Pass ELSE body[k]]

\* Lines 174-180: a class body, and the bodies of the functions in it
StripClassBody(body) ==
    [k \in 1..Len(body) |->
        IF IsExprConstant(body[k]) THEN Pass
        ELSE IF body[k].kind = "FunctionDef"
             THEN [body[k] EXCEPT !.body = StripBody(body[k].body)]
             ELSE body[k]]

\* Lines 163-180: the loop over enumerate(tree.body[1:]).  snapshot is the
\* copy tree.body[1:], index the loop counter; a literal at snapshot[index]
\* assigns tree.body[index], the other branches change the node itself,
\* which sits at tree.body[index + 1].
RECURSIVE StripLoop(_, _, _)
StripLoop(body, snapshot, index) ==
    IF index >= Len(snapshot) THEN body
    ELSE LET node == PyIndex(snapshot, index)
             next ==
                IF IsExprConstant(node) THEN PySetItem(body, index, Pass)
                ELSE IF node.kind = "FunctionDef"
                     THEN PySetItem(body, index + 1,
                                    [node EXCEPT !.body = StripBody(node.body)])
                ELSE IF node.kind = "ClassDef"
                     THEN PySetItem(body, index + 1,
                                    [node EXCEPT !.body = StripClassBody(node.body)])
                ELSE body
         IN  StripLoop(next, snapshot, index + 1)

\* Lines 158-181: the new self._code, for text that parses
RemoveCommentsAndDocstrings(text) ==
    LET body == PyInsert(Parse(text), 0, Placeholder)
    IN  Unparse(StripLoop(body, PySlice(body, 1, Len(body)), 0))

----------------------------------------------------------------------------
(* _remove_comments_and_docstrings called on a constructed object.         *)

MaxBody == 2
Doc == ExprConstant("doc")
FuncBodies == SeqsOf({Doc, Assign("x", "y")}, 1, 2)
Functions == {FunctionDef("f", b) : b \in FuncBodies}
ClassBodies ==
    SeqsOf({Doc, Assign("x", "y"),
            FunctionDef("m", <<Doc, Assign("x", "y")>>),
            FunctionDef("m", <<Assign("x", "y"), Doc>>)}, 1, 2)
Classes == {ClassDef("A", b) : b \in ClassBodies}
StripStatements == {Doc, ExprConstant("42"), Assign("x", "y"), ExprCall("print", "x")}
                      \cup Functions \cup Classes
\* The input texts: module bodies of up to MaxBody statements, with or
\* without a comment line in front, and one text that does not parse
StripInputs ==
    LET bodies == SeqsOf(StripStatements, 0, MaxBody)
    IN  bodies \cup {<<Comment("# c")>> \o b : b \in bodies}
               \cup {<<InvalidLine>>}

InitStrip ==
    /\ pc = "constructed"
    /\ input \in StripInputs
    /\ code = input
    /\ frame = NoFrame
    /\ FreshObject

\* obj._remove_comments_and_docstrings()
CallStrip ==
    /\ pc = "constructed"
    /\ \/ /\ Parses(code)
          /\ code' = RemoveCommentsAndDocstrings(code)
          /\ pc' = "stripped"
          /\ error' = error
       \/ /\ ~Parses(code)
          /\ code' = code
          /\ pc' = "raised"
          /\ error' = "SyntaxError"
    /\ UNCHANGED <<input, recursion, include_imports, imports, aliases,
                   layers, idx, output, ret, frame>>

NextStrip == CallStrip

SpecStrip == InitStrip /\ [][NextStrip]_vars

\* What C2 says a statement of the input becomes
C2_BodyExpected(body) ==
    [k \in 1..Len(body) |->
        IF body[k].kind = "Expr" /\ body[k].value.kind = "Constant"
        THEN [kind |-> "Pass"] ELSE body[k]]

C2_Expected(n) ==
    IF n.kind = "Expr" /\ n.value.kind = "Constant" THEN [kind |-> "Pass"]
    ELSE IF n.kind = "FunctionDef" THEN [n EXCEPT !.body = C2_BodyExpected(n.body)]
    ELSE IF n.kind = "ClassDef"
         THEN [n EXCEPT !.body =
                 [k \in 1..Len(n.body) |->
                     IF n.body[k].kind = "FunctionDef"
                     THEN [n.body[k] EXCEPT !.body = C2_BodyExpected(n.body[k].body)]
                     ELSE C2_BodyExpected(n.body)[k]]]
    ELSE n

\* C2: after the stripper has run, the output is the placeholder literal
\* followed by the statements of the input in their order, each standalone
\* literal statement (module scope, function body, class body, method body)
\* replaced by pass at its own position and every other statement unchanged.
C2_StripReplacesLiterals ==
    pc = "stripped" =>
        LET in == SelectSeq(input, LAMBDA l : l.kind # "comment")
        IN  /\ Len(code) = Len(in) + 1
            /\ code[1] = ExprConstant("Obfuscated Python Code")
            /\ \A k \in 1..Len(in) : code[k + 1] = C2_Expected(in[k])

\* The nested part of C2 alone: literals directly in a top-level function,
\* class or method body become pass in place (holds when the module body has
\* no standalone literal of its own)
C2_NestedOnly ==
    (pc = "stripped"
       /\ \A k \in 1..Len(input) : ~(input[k].kind = "Expr" /\ input[k].value.kind = "Constant"))
    => C2_StripReplacesLiterals

----------------------------------------------------------------------------
(* The import ledger: _save_imports and _prepend_imports.                  *)

\* Lines 191-201: visit_node over a statement list, depth first
RECURSIVE CollectImports(_)
CollectImports(body) ==
    IF body = <<>> THEN <<>>
    ELSE LET n == Head(body)
             here ==
                IF n.kind = "Import"
                THEN [k \in 1..Len(n.names) |-> <<None, n.names[k]>>]
                ELSE IF n.kind = "ImportFrom"
                THEN [k \in 1..Len(n.names) |-> <<n.module, n.names[k]>>]
                ELSE IF n.kind \in {"FunctionDef", "ClassDef"}
                THEN CollectImports(n.body)
                ELSE <<>>
         IN  here \o CollectImports(Tail(body))

\* Line 205: key=lambda x: len(x[1]) + len(x[0]) if x[0] is not None else 0
\* (a conditional expression: the sum is its first branch)
SortKey(x) == IF x[1] # None THEN Len(x[2]) + Len(x[1]) ELSE 0

\* list.sort(reverse=True, key=...): stable, descending.  InsertDesc puts x
\* behind every element whose key is at least its own.
RECURSIVE InsertDesc(_, _)
InsertDesc(sorted, x) ==
    IF sorted = <<>> THEN <<x>>
    ELSE IF SortKey(Head(sorted)) >= SortKey(x)
         THEN <<Head(sorted)>> \o InsertDesc(Tail(sorted), x)
         ELSE <<x>> \o sorted

RECURSIVE SortDesc(_)
SortDesc(s) ==
    IF s = <<>> THEN <<>>
    ELSE InsertDesc(SortDesc(SubSeq(s, 1, Len(s) - 1)), s[Len(s)])

\* Lines 203-205: the new self._imports, for text that parses
SaveImports(ledger, text) == SortDesc(ledger \o CollectImports(Parse(text)))

\* A line of source text written as text
SourceLine(text) == [kind |-> "source", text |-> text]

\* Lines 216-219: the statement of one record (its "\n" ends the line)
ImportStatement(rec) ==
    IF rec[1] # None THEN "from " \o rec[1] \o " import " \o rec[2]
    ELSE "import " \o rec[2]

\* _prepend_imports writing the statements in ledger order
MutPrependImports(text, ledger) ==
    [k \in 1..Len(ledger) |-> SourceLine(ImportStatement(ledger[k]))] \o text

\* Lines 215-220: the loop self._code = statement + self._code
RECURSIVE PrependImports(_, _)
PrependImports(text, ledger) ==
    IF ledger = <<>> THEN text
    ELSE PrependImports(<<SourceLine(ImportStatement(Head(ledger)))>> \o text,
                        Tail(ledger))

MaxImportStmts == 2
ImportStatements ==
    {Import(<<"os">>), Import(<<"numpy">>), Import(<<"a", "sys">>),
     ImportFrom("os", <<"x">>), ImportFrom("datetime", <<"datetime", "date">>),
     ImportFrom(None, <<"zz">>), Assign("x", "y"), Comment("# c"),
     FunctionDef("f", <<Import(<<"json">>), Assign("x", "y")>>)}
ImportInputs == SeqsOf(ImportStatements, 0, MaxImportStmts) \cup {<<InvalidLine>>}

InitImports ==
    /\ pc = "constructed"
    /\ input \in ImportInputs
    /\ code = input
    /\ frame = NoFrame
    /\ FreshObject

\* obj._save_imports()
CallSaveImports ==
    /\ pc = "constructed"
    /\ \/ /\ Parses(code)
          /\ imports' = SaveImports(imports, code)
          /\ pc' = "imports_saved"
          /\ error' = error
       \/ /\ ~Parses(code)
          /\ imports' = imports
          /\ pc' = "raised"
          /\ error' = "SyntaxError"
    /\ UNCHANGED <<input, code, recursion, include_imports, aliases,
                   layers, idx, output, ret, frame>>

\* obj._prepend_imports()
CallPrependImports ==
    /\ pc = "imports_saved"
    /\ code' = PrependImports(code, imports)
    /\ pc' = "prepended"
    /\ UNCHANGED <<input, recursion, include_imports, imports, aliases,
                   layers, idx, output, error, ret, frame>>

NextImports == CallSaveImports \/ CallPrependImports

SpecImports == InitImports /\ [][NextImports]_vars

\* The key C5 names: length(symbol) + length(module or "")
C5_Key(rec) == Len(rec[2]) + (IF rec[1] = "None" THEN 0 ELSE Len(rec[1]))

\* C5: once _save_imports has run, the ledger is in descending order of
\* length(symbol) + length(module or ""), plain imports included.
C5_LedgerSortedByLength ==
    pc \in {"imports_saved", "prepended"} =>
        \A i, j \in 1..Len(imports) : i < j => C5_Key(imports[i]) >= C5_Key(imports[j])

\* C6: once _prepend_imports has run, the text is one statement per ledger
\* record, the last record's statement first, followed by the text it was
\* given unchanged; a record with a module reads "from <module> import
\* <symbol>", one without reads "import <symbol>".
C6_PrependReversesLedger ==
    pc = "prepended" =>
        LET n == Len(imports)
        IN  /\ Len(code) = n + Len(input)
            /\ \A k \in 1..n :
                  LET rec == imports[n + 1 - k]
                  IN  code[k] = [kind |-> "source",
                                 text |-> IF rec[1] = "None"
                                          THEN "import " \o rec[2]
                                          ELSE "from " \o rec[1] \o " import " \o rec[2]]
            /\ SubSeq(code, n + 1, Len(code)) = input

\* Two records, one with a module and one without, have been prepended
C6_Witness ==
    /\ pc = "prepended"
    /\ Len(imports) >= 2
    /\ \E i, j \in 1..Len(imports) : imports[i][1] = "None" /\ imports[j][1] # "None"
    /\ imports[1] # imports[Len(imports)]

----------------------------------------------------------------------------
(* The identifier renamer: _generate_random_name and _obfuscate_vars.      *)

\* dir(builtins), as far as the texts here use it
Builtins == {"print", "exec", "range", "bytes", "map", "int", "list",
             "compile", "__import__"}

\* [x[1] for x in self._outer._imports]
ImportSymbols(ledger) == {ledger[k][2] : k \in 1..Len(ledger)}

\* self._valid_identifiers (lines 83-86): the characters drawn here
ValidIdentifiers == {"U+0100", "U+0101"}

\* self._aliases = {}
NoAliases == [n \in {} |-> None]

\* _generate_random_name without its lookup: every call draws again
MutGenerateRandomName(table, name, drawn) ==
    <<[n \in DOMAIN table \cup {name} |-> IF n = name THEN drawn ELSE table[n]], drawn>>

\* Lines 432-436: <<the new self._aliases, the value returned>>; drawn is
\* random.choice(self._valid_identifiers), used on a miss only
GenerateRandomName(table, name, drawn) ==
    IF name \notin DOMAIN table
    THEN <<[n \in DOMAIN table \cup {name} |-> IF n = name THEN drawn ELSE table[n]],
           drawn>>
    ELSE <<table, table[name]>>

\* Lines 411-415: visit_Name on each Name node of a list of ids
VisitNames(names, table) ==
    [k \in 1..Len(names) |->
        IF names[k] \in DOMAIN table THEN table[names[k]] ELSE names[k]]

\* Lines 418-419: transformer.visit(tree), which reaches every Name node
RECURSIVE VisitBody(_, _)
VisitBody(body, table) ==
    [k \in 1..Len(body) |->
        LET n == body[k]
        IN  IF n.kind \in {"FunctionDef", "ClassDef"}
            THEN [n EXCEPT !.body = VisitBody(n.body, table)]
            ELSE IF n.kind = "Expr" /\ n.value.kind = "Call"
            THEN [n EXCEPT !.value.names = VisitNames(n.value.names, table)]
            ELSE IF n.kind \in {"Assign", "loader"}
            THEN [n EXCEPT !.names = VisitNames(n.names, table)]
            ELSE n]

\* Lines 417-420: the new self._code, for text that parses
ObfuscateVars(text, table) == Unparse(VisitBody(Parse(text), table))

\* The ids of the Name nodes of a statement list, in tree order
RECURSIVE NameIds(_)
NameIds(body) ==
    IF body = <<>> THEN <<>>
    ELSE LET n == Head(body)
             here == IF n.kind \in {"FunctionDef", "ClassDef"} THEN NameIds(n.body)
                     ELSE IF n.kind = "Expr" /\ n.value.kind = "Call" THEN n.value.names
                     ELSE IF n.kind \in {"Assign", "loader"} THEN n.names
                     ELSE <<>>
         IN  here \o NameIds(Tail(body))

MaxRenameStmts == 2
\* Names handed to _generate_random_name
NameSample == {"x", "print", "os"}
RenameStatements ==
    {Assign("x", "y"), ExprCall("print", "x"), ExprCall("os", "y"),
     Import(<<"os">>), Comment("# c"),
     FunctionDef("f", <<Assign("y", "x")>>)}
RenameInputs == SeqsOf(RenameStatements, 1, MaxRenameStmts) \cup {<<InvalidLine>>}

InitRename ==
    /\ pc = "constructed"
    /\ input \in RenameInputs
    /\ code = input
    /\ frame = NoFrame
    /\ recursion = 1
    /\ include_imports = FALSE
    /\ imports = <<>>
    /\ aliases = NoAliases
    /\ layers = <<>>
    /\ idx = 0
    /\ output = <<>>
    /\ error = None
    /\ ret = None

\* obj._generate_random_name(name)
CallGenerateRandomName ==
    /\ pc \in {"constructed", "imports_saved"}
    /\ \E name \in NameSample, drawn \in ValidIdentifiers :
          LET r == GenerateRandomName(aliases, name, drawn)
          IN  /\ aliases' = r[1]
              /\ ret' = r[2]
              /\ frame' = [op |-> "_generate_random_name", name |-> name,
                           miss |-> name \notin DOMAIN aliases]
    /\ UNCHANGED <<pc, input, code, recursion, include_imports, imports,
                   layers, idx, output, error>>

\* obj._obfuscate_vars()
CallObfuscateVars ==
    /\ pc \in {"constructed", "imports_saved"}
    /\ \/ /\ Parses(code)
          /\ code' = ObfuscateVars(code, aliases)
          /\ frame' = [op |-> "_obfuscate_vars", before |-> code]
          /\ UNCHANGED <<pc, error>>
       \/ /\ ~Parses(code)
          /\ pc' = "raised"
          /\ error' = "SyntaxError"
          /\ UNCHANGED <<code, frame>>
    /\ UNCHANGED <<input, recursion, include_imports, imports, aliases,
                   layers, idx, output, ret>>

NextRename == CallSaveImports \/ CallGenerateRandomName \/ CallObfuscateVars

SpecRename == InitRename /\ [][NextRename]_vars

\* C4: right after a renaming pass, every Name id of the text the pass was
\* given that is neither a builtin nor a recorded import symbol has an
\* entry in the alias table, and that Name node now carries its synthetic
\* name.
C4_RenamerCoversNames ==
    (pc # "raised" /\ frame.op = "_obfuscate_vars") =>
        LET before == NameIds(SelectSeq(frame.before, LAMBDA l : l.kind # "comment"))
            after == NameIds(code)
        IN  /\ Len(after) = Len(before)
            /\ \A k \in 1..Len(before) :
                  (before[k] \notin Builtins
                     /\ before[k] \notin {imports[j][2] : j \in 1..Len(imports)})
                  => /\ before[k] \in DOMAIN aliases
                     /\ after[k] = aliases[before[k]]

\* C8: a call of _generate_random_name returns the entry of its name, which
\* is the entry the name already had if it had one; and no step changes or
\* removes an entry of the alias table.
C8_IdempotentRenaming ==
    [][/\ \A n \in DOMAIN aliases : n \in DOMAIN aliases' /\ aliases'[n] = aliases[n]
       /\ (frame' # frame /\ frame'.op = "_generate_random_name")
            => /\ frame'.name \in DOMAIN aliases'
               /\ ret' = aliases'[frame'.name]
               /\ (frame'.name \in DOMAIN aliases => ret' = aliases[frame'.name])
      ]_vars

\* A call for a name that already had an entry, made with another draw
C8_Witness ==
    /\ frame.op = "_generate_random_name"
    /\ ~frame.miss
    /\ Cardinality(DOMAIN aliases) >= 2
    /\ ret = aliases[frame.name]

\* C9: no builtin name and no recorded import symbol is a key of the alias
\* table.
C9_ProtectedNamesNotAliased ==
    \A n \in DOMAIN aliases :
        /\ n \notin Builtins
        /\ n \notin {imports[j][2] : j \in 1..Len(imports)}

----------------------------------------------------------------------------
(* The run: __init__ and obfuscate(), one step per statement of obfuscate. *)

DUMMY_COMMENT_COUNT == 1056

\* Lines 446-450: the text with the filler block behind it
InsertDummyComments(text) ==
    text \o <<[kind |-> "blank"],
              Comment("# Obfuscated code - Do not modify"),
              [kind |-> "padding", lines |-> DUMMY_COMMENT_COUNT]>>

\* compile(text, "<string>", "exec") succeeds
Compiles(text) ==
    /\ Parses(text)
    /\ \A k \in 1..Len(text) : text[k].kind # "Return"

LayerNames == <<"_layer_1", "_layer_2", "_layer_3", "_layer_4">>

\* Every order of a list holding counts[k] copies of LayerNames[k]: the
\* results random.shuffle can leave
RECURSIVE Arrangements(_)
Arrangements(counts) ==
    IF \A k \in 1..4 : counts[k] = 0 THEN {<<>>}
    ELSE UNION {{<<LayerNames[k]>> \o rest :
                    rest \in Arrangements([counts EXCEPT ![k] = @ - 1])} :
                k \in {j \in 1..4 : counts[j] > 0}}

\* Lines 121-127: [_layer_1, _layer_2, _layer_3, _layer_4] * r, shuffled
Shuffles(r) == Arrangements([k \in 1..4 |-> r])

\* Lines 131-135: the index of the first element that is not _layer_3
RECURSIVE FirstOther(_, _)
FirstOther(list, index) ==
    IF PyIndex(list, index) # "_layer_3" THEN index
    ELSE FirstOther(list, index + 1)

\* The repair without line 134: the last element is not overwritten
MutRepair(list) ==
    IF list[Len(list)] = "_layer_3"
    THEN PySetItem(list, FirstOther(list, 0), "_layer_3")
    ELSE list

\* Lines 130-135: _layer_3 moved away from the last place
Repair(list) ==
    IF list[Len(list)] = "_layer_3"
    THEN LET index == FirstOther(list, 0)
         IN  PySetItem(PySetItem(list, index, "_layer_3"),
                       Len(list) - 1, PyIndex(list, index))
    ELSE list

\* Lines 237-269, the text level: the payload is padded, encoded into the
\* loader, the loader renamed and padded
Layer1(text, table) ==
    InsertDummyComments(
        ObfuscateVars(<<Loader("_layer_1", [text |-> InsertDummyComments(text)])>>, table))

\* Lines 284-310, the text level
Layer2(text, table) ==
    InsertDummyComments(ObfuscateVars(<<Loader("_layer_2", [text |-> text])>>, table))

\* Lines 325-348, the text level: the template is renamed, then filled
Layer3(text, table) ==
    InsertDummyComments(
        [k \in 1..1 |-> [ObfuscateVars(<<Loader("_layer_3", [text |-> <<>>])>>, table)[k]
                           EXCEPT !.payload = [text |-> text]]])

\* Lines 367-379: the text _layer_4 writes
Layer4(text) == <<Import(<<"marshal">>), Loader("_layer_4", [text |-> text])>>

MaxRecursion == 1
\* Recursion arguments: two below 1, and 1..max
RecursionArgs(max) == {0 - 1, 0} \cup (1..max)

RunInputs ==
    {<<Assign("x", "y")>>,
     <<Doc, Import(<<"os">>), ExprCall("print", "x"), Comment("# c")>>,
     <<ImportFrom("datetime", <<"datetime">>), Import(<<"sys">>)>>,
     <<ModuleReturn>>,
     <<InvalidLine>>}

\* Before PyObfuscator(code, include_imports, recursion) is called
Init ==
    /\ pc = "new"
    /\ input \in RunInputs
    /\ recursion \in RecursionArgs(MaxRecursion)
    /\ include_imports \in BOOLEAN
    /\ code = <<>>
    /\ imports = <<>>
    /\ aliases = NoAliases
    /\ layers = <<>>
    /\ idx = 0
    /\ output = <<>>
    /\ error = None
    /\ ret = None
    /\ frame = NoFrame

\* __init__ without the test of recursion
MutConstruct ==
    /\ pc = "new"
    /\ code' = input
    /\ pc' = "constructed"
    /\ UNCHANGED <<input, recursion, include_imports, imports, aliases,
                   layers, idx, output, error, ret, frame>>

\* Lines 79-94: __init__
Construct ==
    /\ pc = "new"
    /\ code' = input
    /\ \/ /\ recursion < 1
          /\ pc' = "rejected"
          /\ error' = "ValueError"
       \/ /\ recursion >= 1
          /\ pc' = "constructed"
          /\ error' = error
    /\ UNCHANGED <<input, recursion, include_imports, imports, aliases,
                   layers, idx, output, ret, frame>>

\* Line 118: obfuscate() starts with the stripper
ObfStrip ==
    /\ pc = "constructed"
    /\ \/ /\ Parses(code)
          /\ code' = RemoveCommentsAndDocstrings(code)
          /\ pc' = "o_save_imports"
          /\ error' = error
       \/ /\ ~Parses(code)
          /\ code' = code
          /\ pc' = "raised"
          /\ error' = "SyntaxError"
    /\ frame' = [op |-> "_remove_comments_and_docstrings"]
    /\ UNCHANGED <<input, recursion, include_imports, imports, aliases,
                   layers, idx, output, ret>>

\* Line 119
ObfSaveImports ==
    /\ pc = "o_save_imports"
    /\ imports' = SaveImports(imports, code)
    /\ pc' = "o_build"
    /\ frame' = [op |-> "_save_imports"]
    /\ UNCHANGED <<input, code, recursion, include_imports, aliases,
                   layers, idx, output, error, ret>>

\* Lines 121-135: build, shuffle and repair the layer sequence
ObfBuildLayers ==
    /\ pc = "o_build"
    /\ \E shuffled \in Shuffles(recursion) :
          /\ layers' = Repair(shuffled)
          /\ frame' = [op |-> "shuffle", shuffled |-> shuffled]
    /\ idx' = 0
    /\ pc' = "o_apply"
    /\ UNCHANGED <<input, code, recursion, include_imports, imports, aliases,
                   output, error, ret>>

\* Lines 138-139: the next layer is due
Due(layer) == pc = "o_apply" /\ idx < Len(layers) /\ PyIndex(layers, idx) = layer

ApplyLayer1 ==
    /\ Due("_layer_1")
    /\ code' = Layer1(code, aliases)
    /\ idx' = idx + 1
    /\ frame' = [op |-> "_layer_1", before |-> code]
    /\ UNCHANGED <<pc, input, recursion, include_imports, imports, aliases,
                   layers, output, error, ret>>

ApplyLayer2 ==
    /\ Due("_layer_2")
    /\ code' = Layer2(code, aliases)
    /\ idx' = idx + 1
    /\ frame' = [op |-> "_layer_2", before |-> code]
    /\ UNCHANGED <<pc, input, recursion, include_imports, imports, aliases,
                   layers, output, error, ret>>

ApplyLayer3 ==
    /\ Due("_layer_3")
    /\ code' = Layer3(code, aliases)
    /\ idx' = idx + 1
    /\ frame' = [op |-> "_layer_3", before |-> code]
    /\ UNCHANGED <<pc, input, recursion, include_imports, imports, aliases,
                   layers, output, error, ret>>

\* _layer_4 logging its failures and returning instead of raising
MutApplyLayer4 ==
    /\ Due("_layer_4")
    /\ \E checked \in BOOLEAN :
          /\ frame' = [op |-> "_layer_4", before |-> code, built |-> Compiles(code),
                       checked |-> checked]
          /\ code' = IF Compiles(code) THEN Layer4(code) ELSE code
    /\ idx' = idx + 1
    /\ UNCHANGED <<pc, input, recursion, include_imports, imports, aliases,
                   layers, output, error, ret>>

\* Lines 367-387: _layer_4.  The build (lines 371-377) fails on text that
\* does not compile; the self-check (lines 382-387) runs after line 379 has
\* written the loader, and its outcome is the library's (checked)
ApplyLayer4 ==
    /\ Due("_layer_4")
    /\ \/ /\ ~Compiles(code)
          /\ frame' = [op |-> "_layer_4", before |-> code, built |-> FALSE, checked |-> FALSE]
          /\ code' = code
          /\ pc' = "raised"
          /\ error' = "RuntimeError"
          /\ idx' = idx
       \/ /\ Compiles(code)
          /\ \E checked \in BOOLEAN :
                /\ frame' = [op |-> "_layer_4", before |-> code, built |-> TRUE,
                             checked |-> checked]
                /\ code' = Layer4(code)
                /\ pc' = IF checked THEN pc ELSE "raised"
                /\ error' = IF checked THEN error ELSE "RuntimeError"
                /\ idx' = IF checked THEN idx + 1 ELSE idx
    /\ UNCHANGED <<input, recursion, include_imports, imports, aliases,
                   layers, output, ret>>

\* Lines 141-145: the imports are prepended if asked for, the text returned
ObfReturn ==
    /\ pc = "o_apply"
    /\ idx = Len(layers)
    /\ code' = IF include_imports THEN PrependImports(code, imports) ELSE code
    /\ output' = <<code'>>
    /\ pc' = "returned"
    /\ frame' = [op |-> "obfuscate"]
    /\ UNCHANGED <<input, recursion, include_imports, imports, aliases,
                   layers, idx, error, ret>>

Next ==
    \/ Construct
    \/ ObfStrip
    \/ ObfSaveImports
    \/ ObfBuildLayers
    \/ ApplyLayer1
    \/ ApplyLayer2
    \/ ApplyLayer3
    \/ ApplyLayer4
    \/ ObfReturn

Spec == Init /\ [][Next]_vars

----------------------------------------------------------------------------
(* Claims about the run.                                                   *)

C3_Count(list, layer) == Cardinality({k \in 1..Len(list) : list[k] = layer})

C7_RecursionChecked ==
    /\ (pc # "new" /\ recursion < 1) =>
          /\ pc = "rejected"
          /\ error = "ValueError"
          /\ idx = 0
          /\ layers = <<>>
          /\ output = <<>>
          /\ frame = [op |-> "none"]
    /\ (pc # "new" /\ recursion >= 1) => pc # "rejected"
    /\ pc = "constructed" => (code = input /\ error = "None")

\* The constructor has rejected a recursion count of 0
C7_Witness == pc = "rejected" /\ recursion = 0 /\ error = "ValueError"

\* C10: a failure ends the run.  A stripper handed text that does not parse
\* raises before any layer sequence exists; a _layer_4 whose build or whose
\* self-check fails raises; in both cases the layer counter stays where it
\* was, no text is returned, and no step of obfuscate() follows.
C10_FailuresTerminal ==
    [][/\ pc # "raised"
       /\ (pc = "constructed" /\ \E k \in 1..Len(code) : code[k].kind = "invalid")
            => /\ pc' = "raised"
               /\ error' = "SyntaxError"
               /\ idx' = 0
               /\ layers' = <<>>
               /\ output' = <<>>
       /\ (pc = "o_apply" /\ frame'.op = "_layer_4" /\ ~(frame'.built /\ frame'.checked))
            => /\ pc' = "raised"
               /\ error' = "RuntimeError"
               /\ idx' = idx
               /\ output' = <<>>
      ]_vars

\* _layer_4 has failed its self-check after another layer had been applied
C10_Witness ==
    /\ pc = "raised"
    /\ error = "RuntimeError"
    /\ frame.op = "_layer_4"
    /\ frame.built
    /\ ~frame.checked
    /\ idx >= 1
    /\ idx < Len(layers)

----------------------------------------------------------------------------
(* _insert_dummy_comments at the level of characters.  In this part        *)
(* self._code is the text itself, a sequence of one-character strings.     *)

RANDOM_STRING_LENGTH == 100
MAX_STRING_REPETITIONS == 70
\* the [:50] of line 448
FILLER_TRUNCATE == 50

\* Line 446: the characters of "\n\n# Obfuscated code - Do not modify\n#"
PaddingHeader ==
    <<
      "\n", "\n", "#", " ", "O", "b", "f", "u", "s", "c",
      "a", "t", "e", "d", " ", "c", "o", "d", "e", " ",
      "-", " ", "D", "o", " ", "n", "o", "t", " ", "m",
      "o", "d", "i", "f", "y", "\n", "#">>

\* list(dict.fromkeys(s)): the first occurrence of each element, in order
Dedup(s) ==
    LET first == {k \in 1..Len(s) : \A j \in 1..(k - 1) : s[j] # s[k]}
    IN  [i \in 1..Cardinality(first) |->
            s[CHOOSE k \in first : Cardinality({j \in first : j <= k}) = i]]

\* s * r
Repeat(s, r) == [i \in 1..(Len(s) * r) |-> s[((i - 1) % Len(s)) + 1]]

\* Line 448: one element of the joined list, from the letters drawn by
\* random.choices and the count drawn by random.randint
FillerLine(drawn, reps) ==
    Repeat(PySlice(Dedup(drawn), 0, FILLER_TRUNCATE), reps) \o <<"\n">>

\* sep.join(list[lo..hi]) (1-based, lo <= hi)
RECURSIVE JoinRange(_, _, _, _)
JoinRange(sep, list, lo, hi) ==
    IF lo = hi THEN list[lo]
    ELSE LET mid == (lo + hi) \div 2
         IN  JoinRange(sep, list, lo, mid) \o sep \o JoinRange(sep, list, mid + 1, hi)

\* sep.join(list)
Join(sep, list) == IF list = <<>> THEN <<>> ELSE JoinRange(sep, list, 1, Len(list))

\* _insert_dummy_comments joining the filler with "" instead of "#"
MutInsertDummyCommentsText(text, fillers) ==
    (text \o PaddingHeader) \o Join(<<>>, fillers)

\* Lines 446-450: the new self._code; fillers is the list comprehension
InsertDummyCommentsText(text, fillers) ==
    (text \o PaddingHeader) \o Join(<<"#">>, fillers)

MaxTextLen == 2
MaxReps == 2
MaxPeriod == 2
\* Texts the method is called on
PadInputs == SeqsOf({"x", "\n"}, 0, MaxTextLen)
\* Results of random.choices(string.ascii_lowercase, k=RANDOM_STRING_LENGTH)
ChoiceDraws ==
    {[k \in 1..RANDOM_STRING_LENGTH |-> IF k % (p + 1) = q THEN "a" ELSE "b"] :
        p \in 0..MaxPeriod, q \in 0..1}
\* Results of random.randint(1, MAX_STRING_REPETITIONS)
RepDraws == {r \in 1..MAX_STRING_REPETITIONS : r <= MaxReps}
\* Elements the list comprehension of lines 447-450 can hold
FillerDraws == {FillerLine(drawn, reps) : drawn \in ChoiceDraws, reps \in RepDraws}

InitPad ==
    /\ pc = "constructed"
    /\ input \in PadInputs
    /\ code = input
    /\ frame = NoFrame
    /\ FreshObject

\* obj._insert_dummy_comments(); the odd and the even elements of the list
\* comprehension are chosen freely among the filler lines
CallInsertDummyComments ==
    /\ pc = "constructed"
    /\ \E odd \in FillerDraws, even \in FillerDraws :
          code' = InsertDummyCommentsText(code,
                      [k \in 1..DUMMY_COMMENT_COUNT |-> IF k % 2 = 1 THEN odd ELSE even])
    /\ pc' = "padded"
    /\ frame' = [op |-> "_insert_dummy_comments"]
    /\ UNCHANGED <<input, recursion, include_imports, imports, aliases,
                   layers, idx, output, error, ret>>

NextPad == CallInsertDummyComments

SpecPad == InitPad /\ [][NextPad]_vars

\* Positions behind the input at which a line of the output begins
C11_LineStarts ==
    {p \in (Len(input) + 1)..Len(code) : p = 1 \/ code[p - 1] = "\n"}

\* C11: after _insert_dummy_comments the text is the input, unchanged,
\* followed by a non-empty block; every line that begins in the block is
\* empty or begins with "#"; the block ends with a line end, and its "#"
\* lines are the header line and DUMMY_COMMENT_COUNT filler lines.
C11_PaddingOnlyAppends ==
    pc = "padded" =>
        /\ Len(code) > Len(input)
        /\ SubSeq(code, 1, Len(input)) = input
        /\ code[Len(input) + 1] = "\n"
        /\ code[Len(code)] = "\n"
        /\ \A p \in C11_LineStarts : code[p] \in {"\n", "#"}
        /\ Cardinality({p \in C11_LineStarts : code[p] = "#"}) = DUMMY_COMMENT_COUNT + 1

\* Padding behind a text that does not end its last line, with two
\* different filler lines
C11_Witness ==
    /\ pc = "padded"
    /\ Len(input) > 0
    /\ input[Len(input)] = "x"
    /\ \E p \in C11_LineStarts :
          /\ p + 3 <= Len(code)
          /\ code[p] = "#"
          /\ code[p + 1] = "a"
          /\ code[p + 2] = "b"
          /\ code[p + 3] = "a"

----------------------------------------------------------------------------
(* _layer_1 at the level of characters: the split of the encoded payload   *)
(* over the four literals of the loader, and the loader's reassembly.      *)

RANDOM_STRING_MIN_LENGTH == 5
RANDOM_STRING_MAX_LENGTH == 100

\* list.reverse()
Reverse(s) == [k \in 1..Len(s) |-> s[Len(s) + 1 - k]]

\* Line 248: [encoded[i:i + q] for i in range(0, len(encoded), q)] with
\* q = len(encoded) // 4 (q > 0)
L1Split(encoded) ==
    LET q == Len(encoded) \div 4
        n == (Len(encoded) + q - 1) \div q
    IN  [k \in 1..n |-> PySlice(encoded, (k - 1) * q, (k - 1) * q + q)]

\* Lines 240-243: the string constant of the k-th assignment of the template
TemplateLiteral(k) ==
    [kind |-> "Constant",
     value |-> <<"s", "o", "m", "e", "_", "e", "n", "c", "o", "d", "e", "d", "_", "s", "t", "r", "i", "n", "g", "_">> \o
               <<CASE k = 1 -> "1" [] k = 2 -> "2" [] k = 3 -> "3" [] OTHER -> "4">>]

\* Lines 252-265: the assignments in the order ast.walk meets them; noise[k]
\* is the pair <<before, after>> drawn for the k-th assignment
RECURSIVE L1Fill(_, _, _)
L1Fill(k, parts, noise) ==
    IF k > 4 THEN <<>>
    ELSE IF parts = <<>> THEN <<TemplateLiteral(k)>> \o L1Fill(k + 1, parts, noise)
    ELSE LET before == noise[k][1]
             after == noise[k][2]
             part == parts[Len(parts)]
         IN  <<[kind |-> "Subscript",
                value |-> (before \o part) \o after,
                lower |-> Len(before),
                upper |-> Len(before) + Len(part)]>>
             \o L1Fill(k + 1, SubSeq(parts, 1, Len(parts) - 1), noise)

\* _layer_1 without the parts.reverse() of line 249
MutLayer1Literals(encoded, noise) ==
    L1Fill(1, L1Split(encoded), noise)

\* Lines 247-265: the values of the four assignments of the loader
Layer1Literals(encoded, noise) ==
    L1Fill(1, Reverse(L1Split(encoded)), noise)

\* The value the loader computes for one assignment
L1Eval(lit) ==
    IF lit.kind = "Subscript" THEN PySlice(lit.value, lit.lower, lit.upper)
    ELSE lit.value

\* Line 245 as the loader runs it: the value bound to a name by the last of
\* the four assignments to it
L1Lookup(names, literals, id) ==
    L1Eval(literals[CHOOSE k \in 1..4 :
                       /\ names[k] = id
                       /\ \A j \in (k + 1)..4 : names[j] # id])

\* Line 245: fire + water + earth + wind
L1Reassemble(loader) ==
    LET names == loader.names
        lits == loader.payload.literals
    IN  ((L1Lookup(names, lits, names[8]) \o L1Lookup(names, lits, names[9]))
         \o L1Lookup(names, lits, names[10])) \o L1Lookup(names, lits, names[11])

MaxQuarter == 4
MaxNoiseExtra == 1
B64Sample == <<"A", "b", "9", "+", "/">>
\* Results of base64.b64encode(...).decode(): the length is a multiple of 4
\* and, the compressed bytes being never fewer than 8, at least 12
EncodedSamples ==
    {[k \in 1..(4 * q) |->
         IF k = 4 * q /\ pad THEN "=" ELSE B64Sample[((k * m) % Len(B64Sample)) + 1]] :
        q \in 3..MaxQuarter, m \in 1..2, pad \in BOOLEAN}
\* Results of "".join(random.choices(string.ascii_letters, k=random.randint(
\* RANDOM_STRING_MIN_LENGTH, RANDOM_STRING_MAX_LENGTH)))
NoiseDraws ==
    {[k \in 1..n |-> IF (k + n) % 3 = 0 THEN "A" ELSE IF (k + n) % 3 = 1 THEN "x" ELSE "b"] :
        n \in {n \in RANDOM_STRING_MIN_LENGTH..RANDOM_STRING_MAX_LENGTH :
                  n <= RANDOM_STRING_MIN_LENGTH + MaxNoiseExtra}}

\* _layer_1 has reached line 247 and encoded is known; only the encoded
\* string is followed here, the text is left out (empty)
InitL1 ==
    /\ pc = "l1_ready"
    /\ \E e \in EncodedSamples : frame = [op |-> "_layer_1", encoded |-> e]
    /\ input = <<>>
    /\ code = input
    /\ FreshObject

\* Lines 248-267 of _layer_1 with their random draws
Layer1Chars ==
    /\ pc = "l1_ready"
    /\ \E noise \in [1..4 -> NoiseDraws \X NoiseDraws] :
          code' = <<Loader("_layer_1",
                           [literals |-> Layer1Literals(frame.encoded, noise)])>>
    /\ pc' = "l1_written"
    /\ UNCHANGED <<input, recursion, include_imports, imports, aliases,
                   layers, idx, output, error, ret, frame>>

\* Running the loader written by _layer_1, up to the argument of b64decode
RunLoader1 ==
    /\ pc = "l1_written"
    /\ frame' = [op |-> "loader_1", encoded |-> frame.encoded,
                 executed |-> L1Reassemble(code[1])]
    /\ pc' = "l1_loaded"
    /\ UNCHANGED <<input, code, recursion, include_imports, imports, aliases,
                   layers, idx, output, error, ret>>

NextL1 == Layer1Chars \/ RunLoader1

SpecL1 == InitL1 /\ [][NextL1]_vars

\* The k-th quarter of the encoded payload
C12_Quarter(k) ==
    LET q == Len(frame.encoded) \div 4
    IN  SubSeq(frame.encoded, (k - 1) * q + 1, k * q)

\* C12: for every encoded payload and every noise, _layer_1 writes four
\* literals whose recorded lower and upper offsets cut out, in the order
\* fire, water, earth, wind, the four contiguous quarters of the encoded
\* payload, and the loader's fire + water + earth + wind is the encoded
\* payload.
C12_Layer1RoundTrip ==
    /\ pc \in {"l1_written", "l1_loaded"} =>
          LET lits == code[1].payload.literals
          IN  /\ Len(L1Split(frame.encoded)) = 4
              /\ Len(lits) = 4
              /\ \A k \in 1..4 :
                    /\ lits[k].kind = "Subscript"
                    /\ lits[k].upper - lits[k].lower = Len(frame.encoded) \div 4
                    /\ PySlice(lits[k].value, lits[k].lower, lits[k].upper) = C12_Quarter(k)
    /\ pc = "l1_loaded" => frame.executed = frame.encoded

\* The loader has rebuilt a 16-character payload ending in "=" from four
\* literals whose noise differs in length
C12_Witness ==
    /\ pc = "l1_loaded"
    /\ Len(frame.encoded) = 16
    /\ frame.encoded[16] = "="
    /\ frame.executed = frame.encoded
    /\ code[1].payload.literals[1].lower # code[1].payload.literals[2].lower
    /\ C12_Quarter(1) # C12_Quarter(2)
    /\ Len(code[1].payload.literals[1].value) > Len(code[1].payload.literals[4].value)

----------------------------------------------------------------------------
(* _layer_3 at the level of bytes and characters: bytes2ip and the         *)
(* loader's split and int.                                                 *)

IP_BYTES_PER_ADDRESS == 4

\* The decimal digit d as a character
Digit(d) == <<"0", "1", "2", "3", "4", "5", "6", "7", "8", "9">>[d + 1]

\* The value of a decimal digit character
DigitValue(c) == CHOOSE d \in 0..9 : Digit(d) = c

\* str(n) for an int n >= 0
RECURSIVE PyStr(_)
PyStr(n) ==
    IF n < 10 THEN <<Digit(n)>> ELSE PyStr(n \div 10) \o <<Digit(n % 10)>>

\* int(s) for a non-empty string of decimal digits
RECURSIVE PyInt(_)
PyInt(s) ==
    IF Len(s) = 1 THEN DigitValue(s[1])
    ELSE PyInt(SubSeq(s, 1, Len(s) - 1)) * 10 + DigitValue(s[Len(s)])

\* s.split(sep) for a one-character sep
RECURSIVE PySplit(_, _)
PySplit(s, sep) ==
    IF \E k \in 1..Len(s) : s[k] = sep
    THEN LET k == CHOOSE i \in 1..Len(s) : s[i] = sep /\ \A j \in 1..(i - 1) : s[j] # sep
         IN  <<SubSeq(s, 1, k - 1)>> \o PySplit(SubSeq(s, k + 1, Len(s)), sep)
    ELSE <<s>>

\* bytes2ip joining the numbers of an address with "" instead of "."
MutBytes2Ip(data) ==
    [a \in 1..((Len(data) + IP_BYTES_PER_ADDRESS - 1) \div IP_BYTES_PER_ADDRESS) |->
        Join(<<>>,
             MapSeq(PyStr, PySlice(data, (a - 1) * IP_BYTES_PER_ADDRESS,
                                   (a - 1) * IP_BYTES_PER_ADDRESS + IP_BYTES_PER_ADDRESS)))]

\* Lines 330-336: bytes2ip
Bytes2Ip(data) ==
    [a \in 1..((Len(data) + IP_BYTES_PER_ADDRESS - 1) \div IP_BYTES_PER_ADDRESS) |->
        Join(<<".">>,
             MapSeq(PyStr, PySlice(data, (a - 1) * IP_BYTES_PER_ADDRESS,
                                   (a - 1) * IP_BYTES_PER_ADDRESS + IP_BYTES_PER_ADDRESS)))]

\* Line 327: [int(x) for item in [value.split(".") for value in ip_table]
\* for x in item]
RECURSIVE L3Data(_)
L3Data(ip_table) ==
    IF ip_table = <<>> THEN <<>>
    ELSE MapSeq(PyInt, PySplit(Head(ip_table), ".")) \o L3Data(Tail(ip_table))

\* Line 328: bytes(data)
L3Bytes(data) ==
    IF \A k \in 1..Len(data) : data[k] \in 0..255 THEN data ELSE "ValueError"

MaxAddresses == 4
\* Byte values of the base64 alphabet: + 9 = A d z
B64Bytes == <<43, 57, 61, 65, 100, 122>>
\* Results of base64.b64encode(...): the length is a multiple of 4 and, the
\* compressed bytes being never fewer than 8, at least 12
EncryptedSamples ==
    {[k \in 1..(4 * q) |-> B64Bytes[((k * m + o) % Len(B64Bytes)) + 1]] :
        q \in 3..MaxAddresses, m \in 1..5, o \in 0..5}

\* _layer_3 has reached line 338 and encrypted is known; only the bytes
\* are followed here, the text is left out (empty)
InitL3 ==
    /\ pc = "l3_ready"
    /\ \E e \in EncryptedSamples : frame = [op |-> "_layer_3", encrypted |-> e]
    /\ input = <<>>
    /\ code = input
    /\ FreshObject

\* Lines 339-347 of _layer_3
Layer3Bytes ==
    /\ pc = "l3_ready"
    /\ code' = [k \in 1..1 |->
                   [ObfuscateVars(<<Loader("_layer_3", [ip_table |-> <<>>])>>, aliases)[k]
                       EXCEPT !.payload = [ip_table |-> Bytes2Ip(frame.encrypted)]]]
    /\ pc' = "l3_written"
    /\ UNCHANGED <<input, recursion, include_imports, imports, aliases,
                   layers, idx, output, error, ret, frame>>

\* Running the loader written by _layer_3, up to the argument of b64decode
RunLoader3 ==
    /\ pc = "l3_written"
    /\ frame' = [op |-> "loader_3", encrypted |-> frame.encrypted,
                 executed |-> L3Bytes(L3Data(code[1].payload.ip_table))]
    /\ pc' = "l3_loaded"
    /\ UNCHANGED <<input, code, recursion, include_imports, imports, aliases,
                   layers, idx, output, error, ret>>

NextL3 == Layer3Bytes \/ RunLoader3

SpecL3 == InitL3 /\ [][NextL3]_vars

\* C13: for every encoded byte stream, _layer_3 writes one dotted string
\* for every 4 bytes, each with exactly 4 components that are the decimal
\* numbers of its 4 bytes, all in 0..255, and the loader's split on "." and
\* int, flattened, is the byte stream.
C13_Layer3RoundTrip ==
    /\ pc \in {"l3_written", "l3_loaded"} =>
          LET table == code[1].payload.ip_table
          IN  /\ Len(table) * IP_BYTES_PER_ADDRESS = Len(frame.encrypted)
              /\ \A a \in 1..Len(table) :
                    LET parts == PySplit(table[a], ".")
                    IN  /\ Len(parts) = 4
                        /\ \A j \in 1..4 :
                              /\ parts[j] # <<>>
                              /\ \A c \in 1..Len(parts[j]) :
                                    parts[j][c] \in {Digit(d) : d \in 0..9}
                              /\ PyInt(parts[j]) \in 0..255
                              /\ PyInt(parts[j]) = frame.encrypted[(a - 1) * 4 + j]
    /\ pc = "l3_loaded" => frame.executed = frame.encrypted

\* The loader has rebuilt 16 bytes from four addresses, the first of which
\* mixes numbers of two and of three digits
C13_Witness ==
    /\ pc = "l3_loaded"
    /\ Len(frame.encrypted) = 16
    /\ frame.executed = frame.encrypted
    /\ Len(code[1].payload.ip_table) = 4
    /\ \E i, j \in 1..4 :
          /\ frame.encrypted[i] < 100
          /\ frame.encrypted[j] >= 100
    /\ Len(code[1].payload.ip_table[1]) \in 12..14

----------------------------------------------------------------------------
(* The end of each layer method in a run of obfuscate().                   *)

\* C14: when a layer method has returned, the text ends with the padding
\* block, and in front of it stands the loader of that layer, its names
\* renamed with the alias table, wrapping the text the method was entered
\* with: the padding was put behind the loader and never into the payload.
C14_LayerEndsRenamedThenPadded ==
    (pc # "raised" /\ frame.op \in {LayerNames[k] : k \in 1..4}) =>
        /\ Len(code) >= 4
        /\ code = InsertDummyComments(SubSeq(code, 1, Len(code) - 3))
        /\ \E k \in 1..(Len(code) - 3) :
              /\ code[k].kind = "loader"
              /\ code[k].layer = frame.op
              /\ code[k].names = VisitNames(LoaderNames(frame.op), aliases)
              /\ code[k].payload.text = frame.before

----------------------------------------------------------------------------
(* The alias table over a sequence of _generate_random_name calls.         *)

\* C15: the alias table is injective: two distinct original names never
\* hold the same synthetic identifier.
C15_AliasesInjective ==
    \A a \in DOMAIN aliases : \A b \in DOMAIN aliases :
        a # b => aliases[a] # aliases[b]

====
